---- MODULE Spec2Model ----
(***************************************************************************)
(* Model of the PDF_QA_Bot gateway (server.js): the Express route          *)
(* handlers for upload, ask, clear-history, summarize and compare, the     *)
(* express-session store they share, the multer upload middleware and the  *)
(* express-rate-limit limiters in front of them.                           *)
(*                                                                         *)
(* A request is served in steps, one per turn of the Node event loop that  *)
(* its handler needs: it is received (the session middleware loads the     *)
(* session), multer stores the file (upload only), the handler runs up to  *)
(* its await of the downstream call, and the handler resumes when the      *)
(* downstream call settles.  Steps of different requests interleave.       *)
(***************************************************************************)
EXTENDS Integers, Sequences, FiniteSets, TLC

(* ---------------------------- bounds ----------------------------------- *)
MaxReq == 2
TickMs == 300000
MaxTime == 1200000
MaxOver == 1
MaxChat == 4

(* ----------------------- program constants ----------------------------- *)
WindowMs == 900000
UploadMax == 5
AskMax == 30
SummarizeMax == 10
CompareMax == 10

(* ------------------------------ inputs --------------------------------- *)
Sessions == {"s1", "s2"}
Clients == {"ip1", "ip2"}
Docs == {"d1", "d2"}
Questions == {"qa", "qb"}
ReqIds == 1..MaxReq

LimitedRoutes == {"upload", "ask", "summarize", "compare"}
Keys == LimitedRoutes \X Clients

VARIABLES
    req,        \* request id -> the request, its position in its handler, its response
    nreq,       \* number of requests received so far
    store,      \* express-session MemoryStore: session id -> stored session data
    disk,       \* files under uploads/, named by the request whose upload wrote them
    now,        \* wall clock, ms
    hits,       \* rate limiter store: (route, client) -> totalHits
    resetTime,  \* rate limiter store: (route, client) -> end of the current window
    answeredLog,\* history: session -> questions answered since its history was last emptied
    winStart,   \* history: (route, client) -> arrival time of the window's first request
    winCount,   \* history: (route, client) -> requests that arrived in that window
    winAdmitted,\* history: (route, client) -> requests of that window passed on
    winDenied,  \* history: (route, client) -> requests of that window answered 429
    everDenied, \* history: (route, client) -> some request was answered 429
    alive,      \* the gateway process is running
    ui          \* the chat page in the browser: its React state and pending calls

vars == <<req, nreq, store, disk, now, hits, resetTime,
          answeredLog, winStart, winCount, winAdmitted, winDenied, everDenied, alive, ui>>
limVars == <<hits, resetTime, winStart, winCount, winAdmitted, winDenied, everDenied>>

(* ---------------------------- session data ----------------------------- *)
UserTurn(q) == [role |-> "user", content |-> q]
Answer(q) == IF q = "qa" THEN "ans_qa" ELSE "ans_qb"
AssistantTurn(a) == [role |-> "assistant", content |-> a]

FreshSession == [hasHistory |-> FALSE, chatHistory |-> <<>>, currentSessionId |-> "none"]
ChattedSession ==
    [hasHistory |-> TRUE,
     chatHistory |-> <<UserTurn("qa"), AssistantTurn(Answer("qa"))>>,
     currentSessionId |-> "d1"]

\* pdfMagic: the content starts with the bytes %PDF-
NoFile == [mimetype |-> "none", oversize |-> FALSE, pdfMagic |-> FALSE]

NoRequest ==
    [route |-> "none", pc |-> "idle", session |-> "none", sess |-> FreshSession,
     question |-> "", session_ids |-> <<>>, doc_ids |-> <<>>, file |-> NoFile,
     path |-> <<>>, suggestions |-> "none",
     status |-> 0, body |-> "none", errorField |-> FALSE, details |-> "none",
     calls |-> 0, sends |-> 0, threw |-> FALSE, outcome |-> "none"]

(* ---------------------------- rate limiter ----------------------------- *)
\* makeLimiter(max, msg): one limiter, with its own store, per route.
Max(route) ==
    CASE route = "upload" -> UploadMax
      [] route = "ask" -> AskMax
      [] route = "summarize" -> SummarizeMax
      [] route = "compare" -> CompareMax

\* One limiter shared by every route.
LimiterKeyShared(route, ip) == <<"upload", ip>>

\* The store entry a request counts against: the route's own limiter, keyed by
\* the client address (the default keyGenerator).
LimiterKey(route, ip) == <<route, ip>>

\* Windows that end at the multiples of windowMs on the clock.
WindowExpiredCalendar(k) == (now \div WindowMs) * WindowMs > resetTime[k] - WindowMs

\* rateLimit({windowMs}): the entry's window ended (or it never started).
WindowExpired(k) == resetTime[k] <= now

\* A read of the counter whose increment is not stored.
TotalHitsNotStored(k) == IF WindowExpired(k) THEN 1 ELSE hits[k]

\* rateLimit: the store increments the entry, resetting it first if its window
\* ended; the result is the request's totalHits.
TotalHits(k) == IF WindowExpired(k) THEN 1 ELSE hits[k] + 1

\* Off by one: the request that reaches the quota is refused.
AdmittedBelowMax(route, ip) == TotalHits(LimiterKey(route, ip)) < Max(route)

\* rateLimit({max}): the request is passed on while totalHits <= max.
Admitted(route, ip) == TotalHits(LimiterKey(route, ip)) <= Max(route)

\* The limiter middleware handling one request of `ip` on `route`.
RateLimit(route, ip) ==
    LET k == LimiterKey(route, ip)
        g == <<route, ip>>
        ok == Admitted(route, ip)
        newWin == winCount[g] = 0 \/ now - winStart[g] >= WindowMs
    IN  /\ hits' = [hits EXCEPT ![k] = TotalHits(k)]
        /\ resetTime' = [resetTime EXCEPT
                            ![k] = IF WindowExpired(k) THEN now + WindowMs ELSE @]
        /\ winStart' = [winStart EXCEPT ![g] = IF newWin THEN now ELSE @]
        /\ winCount' = [winCount EXCEPT ![g] = IF newWin THEN 1 ELSE @ + 1]
        /\ winAdmitted' = [winAdmitted EXCEPT
                            ![g] = (IF newWin THEN 0 ELSE @) + (IF ok THEN 1 ELSE 0)]
        /\ winDenied' = [winDenied EXCEPT
                            ![g] = (IF newWin THEN 0 ELSE @) + (IF ok THEN 0 ELSE 1)]
        /\ everDenied' = [everDenied EXCEPT ![g] = @ \/ ~ok]

(* -------------------------- session middleware ------------------------- *)
\* No initialisation: the session is used as it was loaded.
InitHistoryNever(sess) == sess

\* if (!req.session.chatHistory) req.session.chatHistory = []
InitHistory(sess) ==
    IF sess.hasHistory THEN sess ELSE [sess EXCEPT !.hasHistory = TRUE, !.chatHistory = <<>>]

\* A push that is lost.
PushTurnLost(sess, turn) == [sess EXCEPT !.hasHistory = TRUE]

\* req.session.chatHistory.push(turn), after "if (!req.session.chatHistory)
\* req.session.chatHistory = []".
PushTurn(sess, turn) ==
    [sess EXCEPT !.hasHistory = TRUE, !.chatHistory = Append(sess.chatHistory, turn)]

\* Routes whose handlers read or write req.session.
SessionRoutes == {"ask", "clear", "upload"}

\* A write-back that replaces every session's data (one history for all).
WriteSessionGlobal(s, sess) == [t \in Sessions |-> sess]

\* MemoryStore.set(sid, session): the stored data of session s is replaced.
WriteSession(s, sess) == [store EXCEPT ![s] = sess]

\* express-session at the end of a response: the request's session object is
\* written back whole when it differs from what was loaded (resave: false).
SaveSession(s, loaded, sess) ==
    IF sess = loaded THEN store ELSE WriteSession(s, sess)

\* res.status(code).json({ error: body }) for an error status, res.json(...)
\* otherwise: the request q is answered and its handler ends.
Reply(q, code, body) ==
    [q EXCEPT !.status = code, !.body = body, !.errorField = (code >= 400),
              !.sends = @ + 1, !.pc = "done",
              !.session = "none", !.sess = FreshSession]

\* A call that is made again when it fails.
CallWithRetry(q) == [q EXCEPT !.calls = @ + 2, !.pc = "await"]

\* await axios.post(...): the handler of q makes its downstream call and waits.
Call(q) == [q EXCEPT !.calls = @ + 1, !.pc = "await"]

\* A limiter that sits behind the downstream call.
RateLimitedAfterCall(q, msg) ==
    [Reply(q, 429, msg) EXCEPT !.errorField = FALSE, !.calls = @ + 1]

\* rateLimit({message: msg}) with msg a string: the limiter answers 429 with
\* the string itself as the body.
RateLimited(q, msg) == [Reply(q, 429, msg) EXCEPT !.errorField = FALSE]

(* ------------------------------ chat page ------------------------------ *)
\* Two chat pages exist: the ChatInterface component and the page of App.js.
Views == {"ChatInterface", "App"}

\* What the question field can hold: nothing, white space, a question.
Texts == {"", " ", "q"}
Trim(t) == IF t = " " THEN "" ELSE t

UserMsg(t) == [role |-> "user", text |-> t]
BotMsg(t) == [role |-> "bot", text |-> t]

\* useState(...) of the page; inflight and summaries count the calls of
\* askQuestion and summarizeDocuments whose promise is still pending.
\* App.js has no document selection.
Mounted(view) ==
    [view |-> view, question |-> "", asking |-> FALSE, summarizing |-> FALSE,
     chat |-> <<>>, selectedDocCount |-> 0, inflight |-> 0, summaries |-> 0]

\* A question field that is never disabled.
InputDisabledNever(u) == FALSE

\* ChatInterface: disabled={asking || selectedDocCount === 0}; App: disabled={asking}
InputDisabled(u) ==
    IF u.view = "App" THEN u.asking ELSE u.asking \/ u.selectedDocCount = 0

\* ChatInterface: disabled={asking || !question.trim() || selectedDocCount === 0}
\* App: disabled={asking || !question.trim()}
ButtonDisabled(u) ==
    \/ u.asking
    \/ Trim(u.question) = ""
    \/ u.view = "ChatInterface" /\ u.selectedDocCount = 0

\* ChatInterface.handleAskQuestion up to its await; onChatUpdate adds the
\* message at the end of the chat history the parent passes in.
handleAskQuestion(u) ==
    IF Trim(u.question) = "" \/ u.selectedDocCount = 0
    THEN u
    ELSE [u EXCEPT !.asking = TRUE,
                   !.chat = Append(@, UserMsg(u.question)),
                   !.question = "",
                   !.inflight = @ + 1]

\* ChatInterface.handleAskQuestion from the await on: try, catch, finally.
handleAskQuestionSettled(u, outcome) ==
    [u EXCEPT !.chat = Append(@, BotMsg(IF outcome = "ok" THEN "answer" ELSE "error")),
              !.asking = FALSE,
              !.inflight = @ - 1]

\* App.askQuestion up to its await; sessionId is set when the page is mounted.
askQuestion(u) ==
    IF Trim(u.question) = ""
    THEN u
    ELSE [u EXCEPT !.asking = TRUE,
                   !.chat = Append(@, UserMsg(u.question)),
                   !.inflight = @ + 1]

\* App.askQuestion from the await on.
askQuestionSettled(u, outcome) ==
    [u EXCEPT !.chat = Append(@, BotMsg(IF outcome = "ok" THEN "answer" ELSE "error")),
              !.question = "",
              !.asking = FALSE,
              !.inflight = @ - 1]

\* A run of the page shows at most MaxChat messages at a time.
Room(u, n) == Len(u.chat) + u.inflight + u.summaries + n <= MaxChat

\* onChange of the question field.
ChangeQuestion(t) ==
    /\ ~InputDisabled(ui)
    /\ t # ui.question
    /\ ui' = [ui EXCEPT !.question = t]
    /\ UNCHANGED <<req, nreq, store, answeredLog, disk, now, limVars, alive>>

Submit(u) == IF u.view = "App" THEN askQuestion(u) ELSE handleAskQuestion(u)

\* onKeyDown of the question field with the Enter key, or onClick of the
\* Ask button: an element that is disabled receives neither.
AskRequested ==
    /\ ~InputDisabled(ui) \/ ~ButtonDisabled(ui)
    /\ Room(ui, 2)
    /\ ui' = Submit(ui)
    /\ UNCHANGED <<req, nreq, store, answeredLog, disk, now, limVars, alive>>

\* The promise of the ask call is fulfilled or rejected.
AskSettled(outcome) ==
    /\ ui.inflight > 0
    /\ ui' = IF ui.view = "App" THEN askQuestionSettled(ui, outcome)
                                ELSE handleAskQuestionSettled(ui, outcome)
    /\ UNCHANGED <<req, nreq, store, answeredLog, disk, now, limVars, alive>>

\* The parent of ChatInterface changes the selection of documents.
SelectDocuments(n) ==
    /\ ui.view = "ChatInterface"
    /\ n # ui.selectedDocCount
    /\ ui' = [ui EXCEPT !.selectedDocCount = n]
    /\ UNCHANGED <<req, nreq, store, answeredLog, disk, now, limVars, alive>>

\* ChatInterface.handleSummarize up to its await, from the Summarize button.
ClickSummarize ==
    /\ ui.view = "ChatInterface"
    /\ ~(ui.summarizing \/ ui.selectedDocCount = 0)
    /\ Room(ui, 1)
    /\ ui' = [ui EXCEPT !.summarizing = TRUE, !.summaries = @ + 1]
    /\ UNCHANGED <<req, nreq, store, answeredLog, disk, now, limVars, alive>>

\* ChatInterface.handleSummarize from the await on.
SummarizeSettled(outcome) ==
    /\ ui.summaries > 0
    /\ ui' = [ui EXCEPT
                !.chat = Append(@, BotMsg(IF outcome = "ok" THEN "summary" ELSE "error")),
                !.summarizing = FALSE,
                !.summaries = @ - 1]
    /\ UNCHANGED <<req, nreq, store, answeredLog, disk, now, limVars, alive>>

\* App.clearHistory once its call has settled: setChat([]) on both paths.
ClearChat ==
    /\ ui.view = "App"
    /\ ui.chat # <<>>
    /\ ui' = [ui EXCEPT !.chat = <<>>]
    /\ UNCHANGED <<req, nreq, store, answeredLog, disk, now, limVars, alive>>

(* ------------------------------- Init ---------------------------------- *)
\* Session s1 has uploaded a document and had one question answered, s2 is
\* new.  Client ip1 has used up its quota on every limited route in a window
\* that started at time 0 (a request answered 400 counts against the quota
\* and changes nothing else); client ip2 has sent nothing.
Init ==
    /\ req = [r \in ReqIds |-> NoRequest]
    /\ nreq = 0
    /\ store = [s \in Sessions |-> IF s = "s1" THEN ChattedSession ELSE FreshSession]
    /\ answeredLog = [s \in Sessions |-> IF s = "s1" THEN {"qa"} ELSE {}]
    /\ disk = {}
    /\ now = 0
    /\ hits = [k \in Keys |-> IF k[2] = "ip1" THEN Max(k[1]) ELSE 0]
    /\ resetTime = [k \in Keys |-> IF k[2] = "ip1" THEN WindowMs ELSE 0]
    /\ winStart = [k \in Keys |-> 0]
    /\ winCount = [k \in Keys |-> IF k[2] = "ip1" THEN Max(k[1]) ELSE 0]
    /\ winAdmitted = [k \in Keys |-> IF k[2] = "ip1" THEN Max(k[1]) ELSE 0]
    /\ winDenied = [k \in Keys |-> 0]
    /\ everDenied = [k \in Keys |-> FALSE]
    /\ alive = TRUE
    /\ ui = Mounted("ChatInterface")

(* ------------------------------ requests ------------------------------- *)
Routes ==
    {"upload_v1", "upload_probe", "upload", "ask", "clear", "summarize", "compare",
     "ask_v1", "summarize_v1", "health", "healthz", "readyz", "suggest"}

\* A request arrives; app.use(session(...)) loads its session from the store.
Receive(route, s) ==
    /\ alive /\ nreq < MaxReq
    /\ nreq' = nreq + 1
    /\ req' = [req EXCEPT ![nreq + 1] =
                IF route \in SessionRoutes
                THEN [NoRequest EXCEPT !.route = route, !.pc = "received",
                                       !.session = s, !.sess = store[s]]
                ELSE [NoRequest EXCEPT !.route = route, !.pc = "received"]]
    /\ UNCHANGED <<ui, alive, store, answeredLog, disk, now, limVars>>

(* -------------------------------- /ask --------------------------------- *)
AskBodies == [question : {""} \cup Questions, session_ids : {<<>>, <<"d1">>}]
AskOutcomes == {"ok", "error", "unreachable"}

\* !question
MissingQuestion(question) == question = ""

\* A check that lets an empty list through.
MissingIdsNever(session_ids) == FALSE

\* !session_ids || session_ids.length === 0
MissingIds(session_ids) == Len(session_ids) = 0

\* app.post("/ask", askLimiter, ...) up to the await of the downstream call.
Ask(r, ip, b) ==
    LET q == req[r]
        in == [q EXCEPT !.question = b.question, !.session_ids = b.session_ids]
    IN
    /\ alive /\ q.pc = "received" /\ q.route = "ask"
    /\ RateLimit("ask", ip)
    /\ req' = [req EXCEPT ![r] =
        IF ~Admitted("ask", ip) THEN RateLimited(q, "Too many questions, try again later.")
        ELSE IF MissingQuestion(b.question) THEN Reply(in, 400, "Missing question.")
        ELSE IF MissingIds(b.session_ids) THEN Reply(in, 400, "Missing session_ids.")
        ELSE IF ~InitHistory(q.sess).hasHistory
             THEN \* chatHistory.push on undefined throws inside the try block
                  Reply(in, 500, "Error getting answer.")
        ELSE Call([in EXCEPT
                    !.sess = PushTurn(InitHistory(q.sess), UserTurn(b.question))])]
    /\ UNCHANGED <<ui, alive, nreq, store, answeredLog, disk, now>>

\* An async handler's promise rejects and nothing handles it.  What follows
\* depends on the installed Express and Node: the rejection is passed on as
\* an error and the process goes on (TRUE), or it is an unhandled rejection
\* and Node ends the process (FALSE).
UnhandledRejection == {TRUE, FALSE}

\* The downstream call of /ask settles and the handler resumes.
AskSettle(r, outcome) ==
    LET q == req[r]
        answered == PushTurn(q.sess, AssistantTurn(Answer(q.question)))
    IN
    /\ alive /\ q.pc = "await" /\ q.route = "ask"
    /\ IF outcome = "ok"
       THEN \* res.json(response.data), then the res.json after the try block throws
            /\ req' = [req EXCEPT ![r] =
                        [Reply(q, 200, "answer") EXCEPT
                            !.outcome = outcome, !.sends = @ + 1, !.threw = TRUE]]
            /\ store' = WriteSession(q.session, answered)
            /\ answeredLog' = [answeredLog EXCEPT ![q.session] = @ \cup {q.question}]
            /\ alive' \in UnhandledRejection
       ELSE /\ req' = [req EXCEPT ![r] =
                        [Reply(q, 500, "Error getting answer.") EXCEPT !.outcome = outcome]]
            /\ store' = WriteSession(q.session, q.sess)
            /\ answeredLog' = answeredLog
            /\ alive' = alive
    /\ UNCHANGED <<ui, nreq, disk, now, limVars>>

(* ---------------------------- /clear-history --------------------------- *)
ClearHistory(r) ==
    LET q == req[r]
        cleared == [q.sess EXCEPT !.hasHistory = TRUE, !.chatHistory = <<>>]
    IN
    /\ alive /\ q.pc = "received" /\ q.route = "clear"
    /\ req' = [req EXCEPT ![r] = Reply(q, 200, "History cleared")]
    /\ store' = SaveSession(q.session, q.sess, cleared)
    /\ answeredLog' = [answeredLog EXCEPT ![q.session] = {}]
    /\ UNCHANGED <<ui, alive, nreq, disk, now, limVars>>

(* ------------------------------ /summarize ----------------------------- *)
SummarizeBodies == [session_ids : {<<>>, <<"d1">>}]
CallOutcomes == {"ok", "error", "unreachable", "timeout"}

Summarize(r, ip, b) ==
    LET q == req[r]
        in == [q EXCEPT !.session_ids = b.session_ids]
    IN
    /\ alive /\ q.pc = "received" /\ q.route = "summarize"
    /\ RateLimit("summarize", ip)
    /\ req' = [req EXCEPT ![r] =
        IF ~Admitted("summarize", ip) THEN RateLimited(q, "Too many summarization requests.")
        ELSE IF MissingIds(b.session_ids) THEN Reply(in, 400, "Missing session_ids.")
        ELSE Call(in)]
    /\ UNCHANGED <<ui, alive, nreq, store, answeredLog, disk, now>>

SummarizeSettle(r, outcome) ==
    LET q == req[r] IN
    /\ alive /\ q.pc = "await" /\ q.route = "summarize"
    /\ req' = [req EXCEPT ![r] =
                [(IF outcome = "ok" THEN Reply(q, 200, "summary")
                  ELSE Reply(q, 500, "Error summarizing PDF."))
                 EXCEPT !.outcome = outcome]]
    /\ UNCHANGED <<ui, alive, nreq, store, answeredLog, disk, now, limVars>>

(* ------------------------------- /compare ------------------------------ *)
MinCompare == 2
CompareBodies ==
    [session_ids : {<<>>, <<"d1">>, <<"d1", "d2">>}, doc_ids : {<<>>}]
    \cup [session_ids : {<<>>}, doc_ids : {<<"d1", "d2">>}]

\* !session_ids || session_ids.length < 2
TooFewIds(session_ids) == Len(session_ids) < MinCompare

Compare(r, ip, b) ==
    LET q == req[r]
        in == [q EXCEPT !.session_ids = b.session_ids, !.doc_ids = b.doc_ids]
    IN
    /\ alive /\ q.pc = "received" /\ q.route = "compare"
    /\ RateLimit("compare", ip)
    /\ req' = [req EXCEPT ![r] =
        IF ~Admitted("compare", ip) THEN RateLimited(q, "Too many comparison requests.")
        ELSE IF TooFewIds(b.session_ids)
             THEN Reply(in, 400, "Select at least 2 documents.")
        ELSE Call(in)]
    /\ UNCHANGED <<ui, alive, nreq, store, answeredLog, disk, now>>

CompareSettle(r, outcome) ==
    LET q == req[r] IN
    /\ alive /\ q.pc = "await" /\ q.route = "compare"
    /\ req' = [req EXCEPT ![r] =
                [(IF outcome = "ok" THEN Reply(q, 200, "comparison")
                  ELSE Reply(q, 500, "Error comparing documents."))
                 EXCEPT !.outcome = outcome]]
    /\ UNCHANGED <<ui, alive, nreq, store, answeredLog, disk, now, limVars>>

(* ------------------------------- /upload ------------------------------- *)
\* Parts whose content is what their declared type says.
Files ==
    {NoFile} \cup {f \in [mimetype : {"application/pdf", "text/plain"}, oversize : BOOLEAN,
                          pdfMagic : BOOLEAN] :
                      f.pdfMagic = (f.mimetype = "application/pdf")}

\* Parts declared application/pdf whose content does not start with %PDF-.
MismatchFiles == [mimetype : {"application/pdf"}, oversize : BOOLEAN, pdfMagic : {FALSE}]

\* The error-handling middleware: app.use((err, req, res, next) => ...).
ErrorHandler(q, code) ==
    IF code = "LIMIT_FILE_SIZE"
    THEN [Reply(q, 413, "File too large") EXCEPT !.details = "static"]
    ELSE Reply(q, 400, code)

\* fileFilter of upload = multer({...}): only a part declared application/pdf
\* is stored.
FileFilter(f) == f.mimetype = "application/pdf"

\* No size limit configured.
OverLimitNever(f) == FALSE

\* limits.fileSize of upload = multer({...}): multer stops at the limit, removes
\* what it stored and passes LIMIT_FILE_SIZE to the error handler.
OverLimit(f) == f.oversize

\* The name storage.filename would give: Date.now() + "-" + file.originalname.
FileNameByTime(r) == <<now, "doc.pdf">>

\* The name multer gives a file under dest: "uploads/": 16 random bytes in hex,
\* a name no other upload has.
FileName(r) == <<"random", r>>

\* upload.single("file") receiving the body of request r, which carries file f.
\* When it is done without a file the route handler answers 400 with noFileMsg.
MulterStart(r, f, noFileMsg) ==
    LET in == [req[r] EXCEPT !.file = f] IN
    IF f = NoFile THEN /\ req' = [req EXCEPT ![r] = Reply(in, 400, noFileMsg)]
                       /\ disk' = disk
    ELSE IF ~FileFilter(f)
         THEN /\ req' = [req EXCEPT ![r] = ErrorHandler(in, "Only PDF files are allowed")]
              /\ disk' = disk
    ELSE /\ req' = [req EXCEPT ![r] = [in EXCEPT !.pc = "multer", !.path = FileName(r)]]
         /\ disk' = disk \cup {r}

\* fs.unlink(filePath) / fs.unlinkSync(filePath) / multer removing its file:
\* whatever is stored under the path of request r is gone.
Unlink(r) == {x \in disk : req[x].path # req[r].path}

\* app.post("/upload", uploadLimiter, upload.single("file"), ...): the limiter,
\* then multer starts.
Upload(r, ip, f) ==
    LET q == req[r] IN
    /\ alive /\ q.pc = "received" /\ q.route = "upload"
    /\ RateLimit("upload", ip)
    /\ IF ~Admitted("upload", ip)
       THEN /\ req' = [req EXCEPT ![r] = RateLimited(q, "Too many PDF uploads, try again later.")]
            /\ disk' = disk
       ELSE MulterStart(r, f, "No file uploaded.")
    /\ UNCHANGED <<ui, alive, nreq, store, answeredLog, now>>

\* multer is done; the handler runs up to the await of the downstream call.
UploadHandler(r) ==
    LET q == req[r] IN
    /\ alive /\ q.pc = "multer" /\ q.route = "upload"
    /\ IF OverLimit(q.file)
       THEN /\ req' = [req EXCEPT ![r] = ErrorHandler(q, "LIMIT_FILE_SIZE")]
            /\ disk' = Unlink(r)
       ELSE /\ req' = [req EXCEPT ![r] = Call(q)]
            /\ disk' = disk
    /\ UNCHANGED <<ui, alive, nreq, store, answeredLog, now, limVars>>

\* The downstream call settles: try / catch / finally of the handler.
UploadSettle(r, outcome, doc) ==
    LET q == req[r]
        updated == [q.sess EXCEPT !.currentSessionId = doc,
                                  !.hasHistory = TRUE, !.chatHistory = <<>>]
    IN
    /\ alive /\ q.pc = "await" /\ q.route = "upload"
    /\ IF outcome = "ok"
       THEN /\ req' = [req EXCEPT ![r] =
                        [Reply(q, 200, "uploaded") EXCEPT !.outcome = outcome]]
            /\ store' = SaveSession(q.session, q.sess, updated)
            /\ answeredLog' = [answeredLog EXCEPT ![q.session] = {}]
       ELSE /\ req' = [req EXCEPT ![r] =
                        [Reply(q, 500, "Upload failed.") EXCEPT !.outcome = outcome]]
            /\ store' = store
            /\ answeredLog' = answeredLog
    /\ disk' = Unlink(r)
    /\ UNCHANGED <<ui, alive, nreq, now, limVars>>

\* const details = err.response?.data || err.message: the body the downstream
\* sent when it answered with a non-success status, else the error's message.
ErrorDetails(outcome) == IF outcome = "error" THEN "downstream" ELSE "message"

\* app.post("/upload", upload.single("file"), ...), first registration.
UploadV1(r, f) ==
    LET q == req[r] IN
    /\ alive /\ q.pc = "received" /\ q.route = "upload_v1"
    /\ MulterStart(r, f, "No file uploaded. Use form field name 'file'.")
    /\ UNCHANGED <<ui, alive, nreq, store, answeredLog, now, limVars>>

UploadV1Handler(r) ==
    LET q == req[r] IN
    /\ alive /\ q.pc = "multer" /\ q.route = "upload_v1"
    /\ IF OverLimit(q.file)
       THEN /\ req' = [req EXCEPT ![r] = ErrorHandler(q, "LIMIT_FILE_SIZE")]
            /\ disk' = Unlink(r)
       ELSE /\ req' = [req EXCEPT ![r] = Call(q)]
            /\ disk' = disk
    /\ UNCHANGED <<ui, alive, nreq, store, answeredLog, now, limVars>>

UploadV1Settle(r, outcome) ==
    LET q == req[r] IN
    /\ alive /\ q.pc = "await" /\ q.route = "upload_v1"
    /\ IF outcome = "ok"
       THEN /\ req' = [req EXCEPT ![r] =
                        [Reply(q, 200, "PDF uploaded & processed successfully!")
                         EXCEPT !.outcome = outcome]]
            /\ disk' = disk
       ELSE /\ req' = [req EXCEPT ![r] =
                        [(IF outcome = "unreachable"
                          THEN [Reply(q, 503, "RAG service unavailable")
                                    EXCEPT !.details = "static"]
                          ELSE [Reply(q, 500, "PDF processing failed")
                                    EXCEPT !.details = ErrorDetails(outcome)])
                         EXCEPT !.outcome = outcome]]
            /\ disk' = Unlink(r)
    /\ UNCHANGED <<ui, alive, nreq, store, answeredLog, now, limVars>>

\* app.post("/upload", upload.single("file"), ...), second registration.
UploadProbe(r, f) ==
    LET q == req[r] IN
    /\ alive /\ q.pc = "received" /\ q.route = "upload_probe"
    /\ MulterStart(r, f, "No file uploaded. Use form field name 'file'.")
    /\ UNCHANGED <<ui, alive, nreq, store, answeredLog, now, limVars>>

UploadProbeHandler(r) ==
    LET q == req[r] IN
    /\ alive /\ q.pc = "multer" /\ q.route = "upload_probe"
    /\ IF OverLimit(q.file)
       THEN /\ req' = [req EXCEPT ![r] = ErrorHandler(q, "LIMIT_FILE_SIZE")]
            /\ disk' = Unlink(r)
       ELSE \* { status: "not ready", service, dependencies: { rag_service: "unreachable" } }
            /\ req' = [req EXCEPT ![r] =
                        [Reply(q, 503, "not ready") EXCEPT !.errorField = FALSE]]
            /\ disk' = disk
    /\ UNCHANGED <<ui, alive, nreq, store, answeredLog, now, limVars>>

(* ------------- /ask and /summarize, first registrations ---------------- *)
\* app.post("/ask", async ...) without limiter, validation or history.
AskV1(r, b) ==
    LET q == req[r] IN
    /\ alive /\ q.pc = "received" /\ q.route = "ask_v1"
    /\ req' = [req EXCEPT ![r] = Call([q EXCEPT !.question = b.question])]
    /\ UNCHANGED <<ui, alive, nreq, store, answeredLog, disk, now, limVars>>

AskV1Settle(r, outcome) ==
    LET q == req[r] IN
    /\ alive /\ q.pc = "await" /\ q.route = "ask_v1"
    /\ req' = [req EXCEPT ![r] =
                [(IF outcome = "ok" THEN Reply(q, 200, "answer")
                  ELSE Reply(q, 500, "Error answering question"))
                 EXCEPT !.outcome = outcome]]
    /\ UNCHANGED <<ui, alive, nreq, store, answeredLog, disk, now, limVars>>

\* app.post("/summarize", async ...) forwarding req.body as it is.
SummarizeV1(r, b) ==
    LET q == req[r] IN
    /\ alive /\ q.pc = "received" /\ q.route = "summarize_v1"
    /\ req' = [req EXCEPT ![r] = Call([q EXCEPT !.session_ids = b.session_ids])]
    /\ UNCHANGED <<ui, alive, nreq, store, answeredLog, disk, now, limVars>>

SummarizeV1Settle(r, outcome) ==
    LET q == req[r] IN
    /\ alive /\ q.pc = "await" /\ q.route = "summarize_v1"
    /\ req' = [req EXCEPT ![r] =
                [(IF outcome = "ok" THEN Reply(q, 200, "summary")
                  ELSE [Reply(q, 500, "Error summarizing PDF")
                            EXCEPT !.details = ErrorDetails(outcome)])
                 EXCEPT !.outcome = outcome]]
    /\ UNCHANGED <<ui, alive, nreq, store, answeredLog, disk, now, limVars>>

(* ------------------------ /generate-suggestions ------------------------ *)
\* What a successful downstream answer carries in its suggestions field.
SuggestPayloads == {"list", "missing"}

\* app.post("/generate-suggestions", ...) up to the await; the call carries
\* timeout: 10000.
GenerateSuggestions(r) ==
    LET q == req[r] IN
    /\ alive /\ q.pc = "received" /\ q.route = "suggest"
    /\ req' = [req EXCEPT ![r] = Call(q)]
    /\ UNCHANGED <<ui, alive, nreq, store, answeredLog, disk, now, limVars>>

\* A failure passed on to the client.
SuggestFailedAsError(q) == Reply(q, 500, "Suggestion generation failed")

\* catch: res.json({ suggestions: [] })
SuggestFailed(q) == [Reply(q, 200, "suggestions") EXCEPT !.suggestions = "empty"]

\* res.json({ suggestions: response.data.suggestions || [] })
SuggestSucceeded(q, payload) ==
    [Reply(q, 200, "suggestions") EXCEPT
        !.suggestions = IF payload = "missing" THEN "empty" ELSE payload]

SuggestSettle(r, outcome, payload) ==
    LET q == req[r] IN
    /\ alive /\ q.pc = "await" /\ q.route = "suggest"
    /\ req' = [req EXCEPT ![r] =
                [(IF outcome = "ok" THEN SuggestSucceeded(q, payload) ELSE SuggestFailed(q))
                 EXCEPT !.outcome = outcome]]
    /\ UNCHANGED <<ui, alive, nreq, store, answeredLog, disk, now, limVars>>

(* ------------------------- liveness and readiness ---------------------- *)
\* Paths a probe asks for: /health is registered, /healthz (the path of the
\* image's HEALTHCHECK) and /readyz are not.
ProbeRoutes == {"health", "healthz", "readyz"}

\* app.get("/health", ...): res.json({ status: "ok" }).
Health(r) ==
    LET q == req[r] IN
    /\ alive /\ q.pc = "received" /\ q.route = "health"
    /\ req' = [req EXCEPT ![r] = Reply(q, 200, "ok")]
    /\ UNCHANGED <<ui, alive, nreq, store, answeredLog, disk, now, limVars>>

\* A GET for which no route is registered: Express answers 404 with an HTML
\* page.
NotFound(r) ==
    LET q == req[r] IN
    /\ alive /\ q.pc = "received" /\ q.route \in {"healthz", "readyz"}
    /\ req' = [req EXCEPT ![r] = [Reply(q, 404, "Cannot GET") EXCEPT !.errorField = FALSE]]
    /\ UNCHANGED <<ui, alive, nreq, store, answeredLog, disk, now, limVars>>

(* -------------------------------- time --------------------------------- *)
Tick ==
    /\ now + TickMs <= MaxTime
    /\ now' = now + TickMs
    /\ UNCHANGED <<ui, alive, req, nreq, store, answeredLog, disk, limVars>>

(* ------------------------- the gateway: Spec --------------------------- *)
\* The routes as the file registers them last: upload (with its limiter), ask,
\* clear-history, summarize, compare.
GatewayRoutes == {"upload", "ask", "clear", "summarize", "compare"}

Next ==
    \/ \E route \in GatewayRoutes, s \in Sessions : Receive(route, s)
    \/ \E r \in ReqIds, ip \in Clients, b \in AskBodies : Ask(r, ip, b)
    \/ \E r \in ReqIds, o \in AskOutcomes : AskSettle(r, o)
    \/ \E r \in ReqIds : ClearHistory(r)
    \/ \E r \in ReqIds, ip \in Clients, b \in SummarizeBodies : Summarize(r, ip, b)
    \/ \E r \in ReqIds, o \in CallOutcomes : SummarizeSettle(r, o)
    \/ \E r \in ReqIds, ip \in Clients, b \in CompareBodies : Compare(r, ip, b)
    \/ \E r \in ReqIds, o \in CallOutcomes : CompareSettle(r, o)
    \/ \E r \in ReqIds, ip \in Clients, f \in Files : Upload(r, ip, f)
    \/ \E r \in ReqIds : UploadHandler(r)
    \/ \E r \in ReqIds, o \in CallOutcomes, d \in Docs : UploadSettle(r, o, d)

Spec == Init /\ [][Next]_vars

(* ------------------ the gateway with its scheduling -------------------- *)
\* Node runs every handler step that is ready, and a timer set by a timeout
\* option of a downstream call fires.  Nothing obliges the downstream service
\* to answer: the steps that settle a call with an answer or a connection
\* failure are not fair.
Fairness ==
    /\ WF_vars(\E r \in ReqIds, ip \in Clients, b \in AskBodies : Ask(r, ip, b))
    /\ WF_vars(\E r \in ReqIds : ClearHistory(r))
    /\ WF_vars(\E r \in ReqIds, ip \in Clients, b \in SummarizeBodies : Summarize(r, ip, b))
    /\ WF_vars(\E r \in ReqIds, ip \in Clients, b \in CompareBodies : Compare(r, ip, b))
    /\ WF_vars(\E r \in ReqIds, ip \in Clients, f \in Files : Upload(r, ip, f))
    /\ WF_vars(\E r \in ReqIds : UploadHandler(r))
    /\ WF_vars(\E r \in ReqIds : SummarizeSettle(r, "timeout"))
    /\ WF_vars(\E r \in ReqIds : CompareSettle(r, "timeout"))
    /\ WF_vars(\E r \in ReqIds, d \in Docs : UploadSettle(r, "timeout", d))

SpecLive == Init /\ [][Next]_vars /\ Fairness

(* ------------- the three registrations of POST /upload ----------------- *)
UploadRoutes == {"upload_v1", "upload_probe", "upload"}

NextUploads ==
    \/ \E route \in UploadRoutes, s \in Sessions : Receive(route, s)
    \/ \E r \in ReqIds, ip \in Clients, f \in Files \cup MismatchFiles : Upload(r, ip, f)
    \/ \E r \in ReqIds : UploadHandler(r)
    \/ \E r \in ReqIds, o \in CallOutcomes, d \in Docs : UploadSettle(r, o, d)
    \/ \E r \in ReqIds, f \in Files \cup MismatchFiles : UploadV1(r, f)
    \/ \E r \in ReqIds : UploadV1Handler(r)
    \/ \E r \in ReqIds, o \in CallOutcomes : UploadV1Settle(r, o)
    \/ \E r \in ReqIds, f \in Files \cup MismatchFiles : UploadProbe(r, f)
    \/ \E r \in ReqIds : UploadProbeHandler(r)

SpecUploads == Init /\ [][NextUploads]_vars

(* ------------ the routes as the file registers them first ------------- *)
LegacyRoutes == {"upload_v1", "ask_v1", "summarize_v1"}

NextLegacy ==
    \/ \E route \in LegacyRoutes, s \in Sessions : Receive(route, s)
    \/ \E r \in ReqIds, f \in Files : UploadV1(r, f)
    \/ \E r \in ReqIds : UploadV1Handler(r)
    \/ \E r \in ReqIds, o \in CallOutcomes : UploadV1Settle(r, o)
    \/ \E r \in ReqIds, b \in AskBodies : AskV1(r, b)
    \/ \E r \in ReqIds, o \in AskOutcomes : AskV1Settle(r, o)
    \/ \E r \in ReqIds, b \in SummarizeBodies : SummarizeV1(r, b)
    \/ \E r \in ReqIds, o \in AskOutcomes : SummarizeV1Settle(r, o)

SpecLegacy == Init /\ [][NextLegacy]_vars

(* ----------- probes and suggestions next to ordinary traffic ----------- *)
NextProbes ==
    \/ \E route \in ProbeRoutes \cup {"upload_probe", "ask", "suggest"}, s \in Sessions :
            Receive(route, s)
    \/ \E r \in ReqIds : GenerateSuggestions(r)
    \/ \E r \in ReqIds, o \in CallOutcomes, p \in SuggestPayloads : SuggestSettle(r, o, p)
    \/ \E r \in ReqIds : Health(r)
    \/ \E r \in ReqIds : NotFound(r)
    \/ \E r \in ReqIds, f \in Files : UploadProbe(r, f)
    \/ \E r \in ReqIds : UploadProbeHandler(r)
    \/ \E r \in ReqIds, ip \in Clients, b \in AskBodies : Ask(r, ip, b)
    \/ \E r \in ReqIds, o \in AskOutcomes : AskSettle(r, o)

SpecProbes == Init /\ [][NextProbes]_vars

(* ---------------- a session after its first upload --------------------- *)
\* Session s1 has uploaded document d1 and asked nothing yet.
UploadedSession == [hasHistory |-> TRUE, chatHistory |-> <<>>, currentSessionId |-> "d1"]

InitUploaded ==
    /\ req = [r \in ReqIds |-> NoRequest]
    /\ nreq = 0
    /\ store = [s \in Sessions |-> IF s = "s1" THEN UploadedSession ELSE FreshSession]
    /\ answeredLog = [s \in Sessions |-> {}]
    /\ disk = {}
    /\ now = 0
    /\ hits = [k \in Keys |-> IF k = <<"upload", "ip1">> THEN 1 ELSE 0]
    /\ resetTime = [k \in Keys |-> IF k = <<"upload", "ip1">> THEN WindowMs ELSE 0]
    /\ winStart = [k \in Keys |-> 0]
    /\ winCount = [k \in Keys |-> IF k = <<"upload", "ip1">> THEN 1 ELSE 0]
    /\ winAdmitted = [k \in Keys |-> IF k = <<"upload", "ip1">> THEN 1 ELSE 0]
    /\ winDenied = [k \in Keys |-> 0]
    /\ everDenied = [k \in Keys |-> FALSE]
    /\ alive = TRUE
    /\ ui = Mounted("ChatInterface")

NextReupload ==
    \/ \E route \in {"upload", "ask"}, s \in Sessions : Receive(route, s)
    \/ \E r \in ReqIds, ip \in Clients, b \in AskBodies : Ask(r, ip, b)
    \/ \E r \in ReqIds, o \in AskOutcomes : AskSettle(r, o)
    \/ \E r \in ReqIds, ip \in Clients, f \in Files : Upload(r, ip, f)
    \/ \E r \in ReqIds : UploadHandler(r)
    \/ \E r \in ReqIds, o \in CallOutcomes, d \in Docs : UploadSettle(r, o, d)

SpecReupload == InitUploaded /\ [][NextReupload]_vars

(* ----------------------- the rate limiters alone ----------------------- *)
\* No client has sent anything yet.
InitLimiter ==
    /\ req = [r \in ReqIds |-> NoRequest]
    /\ nreq = 0
    /\ store = [s \in Sessions |-> FreshSession]
    /\ answeredLog = [s \in Sessions |-> {}]
    /\ disk = {}
    /\ now = 0
    /\ hits = [k \in Keys |-> 0]
    /\ resetTime = [k \in Keys |-> 0]
    /\ winStart = [k \in Keys |-> 0]
    /\ winCount = [k \in Keys |-> 0]
    /\ winAdmitted = [k \in Keys |-> 0]
    /\ winDenied = [k \in Keys |-> 0]
    /\ everDenied = [k \in Keys |-> FALSE]
    /\ alive = TRUE
    /\ ui = Mounted("ChatInterface")

Touched == {k \in Keys : winCount[k] > 0}

\* A request of client ip on a limited route passes through the route's limiter.
\* A run's traffic comes from at most two (route, client) pairs, and a client
\* stops after MaxOver requests beyond the quota of a window.
LimiterRequest(route, ip) ==
    /\ alive
    /\ <<route, ip>> \in Touched \/ Cardinality(Touched) < 2
    /\ \/ winCount[<<route, ip>>] < Max(route) + MaxOver
       \/ now - winStart[<<route, ip>>] >= WindowMs
    /\ RateLimit(route, ip)
    /\ UNCHANGED <<ui, alive, req, nreq, store, answeredLog, disk, now>>

NextLimiter ==
    \/ \E route \in LimitedRoutes, ip \in Clients : LimiterRequest(route, ip)
    \/ Tick

SpecLimiter == InitLimiter /\ [][NextLimiter]_vars

(* --------------------------- the chat page alone ----------------------- *)
InitChat ==
    /\ req = [r \in ReqIds |-> NoRequest]
    /\ nreq = 0
    /\ store = [s \in Sessions |-> FreshSession]
    /\ answeredLog = [s \in Sessions |-> {}]
    /\ disk = {}
    /\ now = 0
    /\ hits = [k \in Keys |-> 0]
    /\ resetTime = [k \in Keys |-> 0]
    /\ winStart = [k \in Keys |-> 0]
    /\ winCount = [k \in Keys |-> 0]
    /\ winAdmitted = [k \in Keys |-> 0]
    /\ winDenied = [k \in Keys |-> 0]
    /\ everDenied = [k \in Keys |-> FALSE]
    /\ alive = TRUE
    /\ ui \in {Mounted(view) : view \in Views}

NextChat ==
    \/ \E t \in Texts : ChangeQuestion(t)
    \/ AskRequested
    \/ \E o \in {"ok", "error"} : AskSettled(o)
    \/ \E n \in 0..1 : SelectDocuments(n)
    \/ ClickSummarize
    \/ \E o \in {"ok", "error"} : SummarizeSettled(o)
    \/ ClearChat

SpecChat == InitChat /\ [][NextChat]_vars

(* ======================================================================= *)
(*                               Claims                                    *)
(* ======================================================================= *)
Done(r) == req[r].pc = "done"
Last(h) == h[Len(h)]

\* The turns of question q stand next to each other in history h.
PairIn(h, q) ==
    \E i \in 1..(Len(h) - 1) :
        h[i] = UserTurn(q) /\ h[i + 1] = AssistantTurn(Answer(q))

\* C1: when two different questions of one session have been answered since the
\* session's history was last emptied, the stored history holds both exchanges,
\* each user turn directly followed by its own assistant turn -- also when the
\* two ask requests were in flight at the same time.
C1_ConcurrentAsksKept ==
    \A s \in Sessions : \A q1, q2 \in answeredLog[s] :
        q1 # q2 => PairIn(store[s].chatHistory, q1) /\ PairIn(store[s].chatHistory, q2)

\* C2: an upload request that has been answered has left no file of its own
\* under uploads/.
C2_UploadFileDeleted ==
    \A r \in ReqIds : (Done(r) /\ req[r].route \in UploadRoutes) => r \notin disk

\* The quotas as the claim states them.
Quota(route) ==
    CASE route = "upload" -> 5 [] route = "ask" -> 30
      [] route = "summarize" -> 10 [] route = "compare" -> 10
MinOf(a, b) == IF a <= b THEN a ELSE b

\* C3: in every window (which starts with the first request that arrives when
\* no window is open or WindowMs after the last one started) the first N
\* requests of a client on a route are passed on and all later ones refused;
\* so the (N+1)-th is answered 429 and the first request of the next window is
\* passed on again.
C3_QuotaPerWindow ==
    \A k \in Keys :
        /\ winAdmitted[k] = MinOf(winCount[k], Quota(k[1]))
        /\ winDenied[k] = winCount[k] - winAdmitted[k]

C3_Witness ==
    \E k \in Keys :
        /\ everDenied[k]
        /\ winStart[k] >= WindowMs
        /\ winAdmitted[k] >= 1 /\ winDenied[k] = 0

\* C4: a request changes the limiter entry of its own (route, client) pair
\* only: every pair that received no request in a step keeps its counter and
\* its window.
C4_BudgetsIndependent ==
    [][\A k \in Keys :
            (winCount'[k] = winCount[k] /\ winStart'[k] = winStart[k])
                => (hits'[k] = hits[k] /\ resetTime'[k] = resetTime[k])]_vars

C4_Witness ==
    \E ip \in Clients :
        /\ winDenied[<<"upload", ip>>] >= 1
        /\ winAdmitted[<<"ask", ip>>] >= 1 /\ winDenied[<<"ask", ip>>] = 0

\* C5: while an ask waits for the downstream call its session history ends
\* with the user's turn and one call has been made; when the call fails the
\* history is stored as it is, ending with that user turn, and when it
\* succeeds it is stored with exactly the assistant turn of the answer added.
C5_AskAwaiting ==
    \A r \in ReqIds :
        (req[r].route = "ask" /\ req[r].pc = "await") =>
            /\ req[r].calls = 1
            /\ Len(req[r].sess.chatHistory) >= 1
            /\ Last(req[r].sess.chatHistory) = UserTurn(req[r].question)

C5_AskSettled ==
    \A r \in ReqIds :
        (req[r].route = "ask" /\ req[r].pc = "await" /\ req'[r].pc = "done") =>
            LET h == req[r].sess.chatHistory
                h2 == store'[req[r].session].chatHistory
            IN  IF req'[r].outcome = "ok"
                THEN h2 = Append(h, AssistantTurn(Answer(req[r].question)))
                ELSE h2 = h

C5_AskHistory == []C5_AskAwaiting /\ [][C5_AskSettled]_vars

C5_Witness ==
    \E r \in ReqIds, s \in Sessions :
        /\ Done(r) /\ req[r].route = "ask" /\ req[r].outcome = "error"
        /\ Len(store[s].chatHistory) >= 1
        /\ Last(store[s].chatHistory) = UserTurn(req[r].question)

\* C6: the step in which a clear-history request is handled leaves the stored
\* history of its session empty and the session's document id as it was.
C6_ClearKeepsDocuments ==
    [][\A r \in ReqIds :
            (req[r].route = "clear" /\ req[r].pc = "received" /\ req'[r].pc = "done") =>
                /\ store'[req[r].session].chatHistory = <<>>
                /\ store'[req[r].session].currentSessionId
                      = store[req[r].session].currentSessionId]_vars

\* C7: a step taken for a request of one session changes the stored data of
\* no other session.
C7_SessionsIsolated ==
    [][\A r \in ReqIds, s \in Sessions :
            (req'[r] # req[r] /\ req[r].session # s) => store'[s] = store[s]]_vars

C7_Witness ==
    /\ store["s1"] = ChattedSession
    /\ store["s2"].chatHistory # <<>>
    /\ \E r \in ReqIds : Done(r) /\ req[r].route = "ask" /\ req[r].outcome = "ok"

\* C8: an ask the limiter admitted with an empty question or no session_ids,
\* and a summarize the limiter admitted with no session_ids, is answered 400
\* without a downstream call, and the step that answers it changes no stored
\* session.
C8_Rejected ==
    \A r \in ReqIds :
        (/\ Done(r) /\ req[r].status # 429
         /\ \/ /\ req[r].route = "ask"
               /\ (req[r].question = "" \/ req[r].session_ids = <<>>)
            \/ /\ req[r].route = "summarize"
               /\ req[r].session_ids = <<>>)
        => (req[r].status = 400 /\ req[r].calls = 0)

C8_NoSessionChange ==
    \A r \in ReqIds :
        (req[r].route \in {"ask", "summarize"} /\ req'[r].status = 400
            /\ req[r].pc = "received")
        => store' = store

C8_ValidationFirst == []C8_Rejected /\ [][C8_NoSessionChange]_vars

C8_Witness ==
    /\ \E r \in ReqIds :
        /\ Done(r) /\ req[r].route = "ask" /\ req[r].status = 400
        /\ req[r].question # "" /\ req[r].session_ids = <<>>
    /\ \E r \in ReqIds :
        /\ Done(r) /\ req[r].route = "summarize" /\ req[r].status = 400

\* C9: a compare the limiter admitted that names fewer than 2 targets (as
\* session_ids or as doc_ids) is answered 400 "Select at least 2 documents."
\* without a downstream call, and one that names 2 or more has been forwarded
\* exactly once when it is answered.
C9_CompareTargets ==
    \A r \in ReqIds :
        (Done(r) /\ req[r].route = "compare" /\ req[r].status # 429) =>
            LET targets == Len(req[r].session_ids) + Len(req[r].doc_ids) IN
            IF targets < 2
            THEN /\ req[r].status = 400
                 /\ req[r].body = "Select at least 2 documents."
                 /\ req[r].calls = 0
            ELSE req[r].calls = 1

C11_ContentMismatchRejected ==
    \A r \in ReqIds :
        (/\ Done(r) /\ req[r].route \in UploadRoutes
         /\ req[r].file.mimetype = "application/pdf"
         /\ ~req[r].file.oversize /\ ~req[r].file.pdfMagic)
        => /\ req[r].status = 400 /\ req[r].body = "ContentMismatch"
           /\ req[r].calls = 0
           /\ r \notin disk

\* C12: an upload whose downstream call found the service unreachable was
\* answered 503, and one whose downstream call got a non-success answer was
\* answered 500.
C12_UnreachableIs503 ==
    \A r \in ReqIds :
        (Done(r) /\ req[r].route \in UploadRoutes) =>
            /\ req[r].outcome = "unreachable" => req[r].status = 503
            /\ req[r].outcome = "error" => req[r].status = 500

\* C13: a request whose downstream call got a non-success answer or timed out
\* was answered 500, and the response carries nothing of what the downstream
\* sent.
C13_DownstreamFailureGeneric ==
    \A r \in ReqIds :
        (Done(r) /\ req[r].outcome \in {"error", "timeout"}) =>
            (req[r].status = 500 /\ req[r].details # "downstream")

\* C14: every response with a status of 400 or above is a JSON object with an
\* error field.
C14_ErrorField ==
    \A r \in ReqIds : (Done(r) /\ req[r].status >= 400) => req[r].errorField

\* C15: every answered liveness probe, on /health or on the /healthz the
\* image's HEALTHCHECK asks for, was answered 200 with the static body and made
\* no downstream call.
C15_LivenessAlwaysOk ==
    \A r \in ReqIds :
        (Done(r) /\ req[r].route \in {"health", "healthz"}) =>
            (req[r].status = 200 /\ req[r].body = "ok" /\ req[r].calls = 0)

\* C16: an answered GET /readyz was answered ready (200) or 503 "not ready"
\* with rag_service unreachable, and no other route sends the "not ready"
\* response.
C16_ReadinessOnlyOnReadyz ==
    \A r \in ReqIds :
        Done(r) =>
            /\ req[r].route = "readyz" =>
                    \/ req[r].status = 200
                    \/ req[r].status = 503 /\ req[r].body = "not ready"
            /\ req[r].body = "not ready" => req[r].route = "readyz"

C18_CallsBounded ==
    \A r \in ReqIds : (req[r].pc = "await") ~> (req[r].pc = "done")

\* C19: an ask or clear-history whose session has no chat history yet is
\* handled as one with an empty history: the ask goes on to its downstream
\* call with a history that holds just its user turn (unless it is refused 400
\* or 429 for its body or its quota), the clear-history is answered 200 and
\* stores an empty history, and an ask is answered 500 only after a downstream
\* call that failed.
C19_AskOnNewSession ==
    \A r \in ReqIds :
        (/\ req[r].route = "ask" /\ req[r].pc = "received"
         /\ ~req[r].sess.hasHistory /\ req'[r] # req[r])
        => \/ /\ req'[r].pc = "await"
              /\ req'[r].sess.chatHistory = <<UserTurn(req'[r].question)>>
           \/ req'[r].status \in {400, 429}

C19_ClearOnNewSession ==
    \A r \in ReqIds :
        (/\ req[r].route = "clear" /\ req[r].pc = "received"
         /\ ~req[r].sess.hasHistory /\ req'[r] # req[r])
        => /\ req'[r].status = 200
           /\ store'[req[r].session].chatHistory = <<>>

C19_No500WithoutCall ==
    \A r \in ReqIds :
        (Done(r) /\ req[r].route \in {"ask", "clear"} /\ req[r].status >= 500)
            => (req[r].calls = 1 /\ req[r].outcome \in {"error", "unreachable"})

C19_LazySession ==
    /\ []C19_No500WithoutCall
    /\ [][C19_AskOnNewSession /\ C19_ClearOnNewSession]_vars

C19_Witness ==
    /\ nreq = 1 /\ Done(1) /\ req[1].route = "ask" /\ req[1].outcome = "ok"
    /\ store["s2"].chatHistory
          = <<UserTurn(req[1].question), AssistantTurn(Answer(req[1].question))>>

\* C20: the gateway process keeps running whatever happens while a request is
\* handled.
C20_ProcessSurvives == alive = TRUE

\* C21: a request the limiter refused made no downstream call and left no file,
\* and the step that refuses it changes no stored session and no file.
C21_Denied ==
    \A r \in ReqIds :
        (Done(r) /\ req[r].status = 429) =>
            (req[r].calls = 0 /\ r \notin disk /\ req[r].file = NoFile)

C21_DenialStep ==
    \A r \in ReqIds :
        (req[r].pc = "received" /\ req'[r].status = 429) =>
            (store' = store /\ disk' = disk)

C21_LimiterFirst == []C21_Denied /\ [][C21_DenialStep]_vars

C21_Witness ==
    /\ \E r \in ReqIds : Done(r) /\ req[r].route = "upload" /\ req[r].status = 429
    /\ \E r \in ReqIds : Done(r) /\ req[r].route = "ask" /\ req[r].status = 429

\* C22: the counter of a (route, client) pair is never negative and equals the
\* number of requests counted in the pair's window, which ends WindowMs after
\* its first request; a request starts the count again at 1 exactly when
\* WindowMs or more have passed since the window's first request (or there was
\* no window yet), and otherwise adds 1 to it.
C22_Counter ==
    \A k \in Keys :
        /\ hits[k] >= 0
        /\ hits[k] = winCount[k]
        /\ winCount[k] > 0 => resetTime[k] = winStart[k] + WindowMs

C22_Reset ==
    \A k \in Keys :
        IF winCount'[k] = winCount[k] /\ winStart'[k] = winStart[k]
        THEN hits'[k] = hits[k]
        ELSE IF winCount[k] = 0 \/ now - winStart[k] >= WindowMs
             THEN hits'[k] = 1 /\ winStart'[k] = now
             ELSE hits'[k] = hits[k] + 1 /\ winStart'[k] = winStart[k]

IsPrefix(a, b) == Len(a) <= Len(b) /\ \A i \in 1..Len(a) : b[i] = a[i]

\* The step answers a clear-history or a successful upload of session s.
Resets(s) ==
    \E r \in ReqIds :
        /\ req[r].session = s /\ req[r].pc # "done" /\ req'[r].pc = "done"
        /\ req[r].route = "clear" \/ (req[r].route = "upload" /\ req'[r].outcome = "ok")

\* C23: every step other than a clear-history or a successful upload of the
\* session keeps the turns stored for the session, in their order, and at most
\* adds turns after them.
C23_AppendOnly ==
    [][\A s \in Sessions :
            ~Resets(s) => IsPrefix(store[s].chatHistory, store'[s].chatHistory)]_vars

\* C24: two uploads whose files are on disk at the same time have different
\* paths, and a file leaves the disk only in a step of the request that
\* stored it.
C24_DistinctPaths ==
    \A r1, r2 \in disk : r1 # r2 => req[r1].path # req[r2].path

C24_OwnCleanup ==
    \A r \in disk : r \notin disk' => req'[r] # req[r]

C24_CollisionFree == []C24_DistinctPaths /\ [][C24_OwnCleanup]_vars

C24_Witness ==
    \E r1, r2 \in disk :
        /\ r1 # r2
        /\ req[r1].route = "upload" /\ req[r2].route = "upload"
        /\ req[r1].pc = "await" /\ req[r2].pc = "await"

\* C25: no request makes more than one downstream call, and a request whose
\* call has settled, however it settled, made exactly one.
C25_NoRetry ==
    \A r \in ReqIds :
        /\ req[r].calls <= 1
        /\ req[r].outcome # "none" => req[r].calls = 1

C25_Witness ==
    /\ \E r \in ReqIds : Done(r) /\ req[r].outcome = "timeout" /\ req[r].calls = 1
    /\ \E r \in ReqIds : Done(r) /\ req[r].outcome = "error" /\ req[r].route = "ask"

\* C26: every answered request was sent exactly one response.
C26_AnsweredOnce ==
    \A r \in ReqIds : Done(r) => req[r].sends = 1

\* C27: the step that answers a successful upload stores the id the downstream
\* returned as the session's current id and an empty history; the step that
\* answers any other upload leaves every stored session as it was.
C27_UploadStep ==
    \A r \in ReqIds :
        (req[r].route = "upload" /\ req[r].pc # "done" /\ req'[r].pc = "done") =>
            IF req'[r].outcome = "ok"
            THEN /\ store'[req[r].session].currentSessionId \in Docs
                 /\ store'[req[r].session].chatHistory = <<>>
            ELSE store' = store

C27_UploadSetsSession == [][C27_UploadStep]_vars

\* C28: the history an ask forwards downstream is the history stored for its
\* session at the moment of the call with the user turn of its question added
\* at the end.
C28_ForwardedHistory ==
    [][\A r \in ReqIds :
            (req[r].route = "ask" /\ req[r].pc = "received" /\ req'[r].pc = "await") =>
                req'[r].sess.chatHistory
                    = Append(store[req[r].session].chatHistory,
                             UserTurn(req'[r].question))]_vars

\* C29: every generate-suggestions request that has been answered was answered
\* 200 with a list of suggestions, the empty list whenever the downstream call
\* failed, timed out or returned none.
C29_SuggestionsGraceful ==
    \A r \in ReqIds :
        (Done(r) /\ req[r].route = "suggest") =>
            /\ req[r].status = 200
            /\ req[r].suggestions \in {"list", "empty"}
            /\ req[r].outcome # "ok" => req[r].suggestions = "empty"

C29_Witness ==
    /\ \E r \in ReqIds : /\ Done(r) /\ req[r].route = "suggest"
                         /\ req[r].outcome = "timeout" /\ req[r].suggestions = "empty"
    /\ \E r \in ReqIds : /\ Done(r) /\ req[r].route = "suggest"
                         /\ req[r].outcome = "ok" /\ req[r].suggestions = "list"

UserCount(chat) == Len(SelectSeq(chat, LAMBDA m : m.role = "user"))

\* asking is true exactly while the call of a submitted question is pending,
\* and at most one such call is pending.
C30_Flag == ui.inflight <= 1 /\ (ui.asking <=> ui.inflight = 1)

\* A submission happens while asking is false, sets it, and adds the question
\* as one user message at the end of the chat.
C30_Submit ==
    [][ui'.inflight > ui.inflight =>
            /\ ~ui.asking /\ ui'.asking
            /\ ui'.inflight = ui.inflight + 1
            /\ ui'.chat = Append(ui.chat, UserMsg(ui.question))]_vars

\* The end of the call adds one bot message, the answer or an error text, at
\* the end of the chat and resets asking.
C30_Answer ==
    [][ui'.inflight < ui.inflight =>
            /\ ui.asking /\ ~ui'.asking
            /\ ui'.inflight = ui.inflight - 1
            /\ \E t \in {"answer", "error"} : ui'.chat = Append(ui.chat, BotMsg(t))]_vars

\* While asking is true no user message is added.
C30_Quiet == [][ui.asking => UserCount(ui'.chat) <= UserCount(ui.chat)]_vars

\* C30: in the chat page every submitted question adds exactly one user
\* message and, when its call ends, exactly one bot message (the answer or an
\* error text); asking is true from the submission until that bot message is
\* added and false afterwards on both paths; no question is submitted while
\* asking is true.
C30_OneAnswerPerQuestion == []C30_Flag /\ C30_Submit /\ C30_Answer /\ C30_Quiet

C30_Witness ==
    /\ ~ui.asking /\ ui.inflight = 0
    /\ \E i \in 1..(Len(ui.chat) - 1) :
            /\ ui.chat[i] = UserMsg("q")
            /\ ui.chat[i + 1] = BotMsg("error")
    /\ \E i \in 1..(Len(ui.chat) - 1) :
            /\ ui.chat[i] = UserMsg("q")
            /\ ui.chat[i + 1] = BotMsg("answer")

====
